---- MODULE Spec2Model ----
(***************************************************************************)
(* Model of xslook/slog (package zg / slog): the mutex-guarded fileWriter  *)
(* with Reload, the Logger built by New over zap, and the package-level    *)
(* logger of the earlier revisions with its once-guarded flush goroutine.  *)
(***************************************************************************)
EXTENDS Integers, Sequences, FiniteSets, TLC

(***************************************************************************)
(* Bounds of the model                                                     *)
(***************************************************************************)
NumWriters == 2      \* goroutines calling fileWriter.Write
NumReloaders == 2    \* goroutines calling fileWriter.Reload
MaxLoggers == 3      \* Logger objects of a run, the development logger included
NumCallers == 2      \* goroutines calling Init and the facade of package slog
MaxInstances == 3    \* zap loggers package slog builds in a run

Writers == 1..NumWriters
Reloaders == (NumWriters + 1)..(NumWriters + NumReloaders)
MaxHandles == NumReloaders + 1
HandleIds == 1..MaxHandles

\* A payload p reaches the file in two pieces, numbered 1 and 2: os.File.Write
\* loops over write(2) until the whole slice is written.

NULL == 0
LogDir == "logs"
LogFile == "app.log"
Dirs == {".", LogDir}

VARIABLES
    \* ---- file system and the os.File handles of the process
    fsDir,      \* fsDir[d]: "dir", "file" or "absent": what the path d is
    fsPath,     \* fsPath[d]: what d/app.log is: 0 absent, -1 a directory, n > 0 the regular file n
    disk,       \* disk[n]: the content of regular file n, a sequence of chunks
    handles,    \* handles[h]: [state: "unused" | "open" | "closed", inode]
    \* ---- the fileWriter under test (src/log.go:74-82)
    fw,         \* [dir, file, w]: w is the *os.File, a handle id
    mux,        \* fileWriter.mux: 0 when unlocked, else the goroutine holding it
    \* ---- goroutines in fileWriter.Write
    wpc,        \* wpc[g]: "idle", "lock" (waiting for the mutex), "w2" (first piece written), "done"
    wh,         \* wh[g]: the handle f.w evaluated to in f.w.Write(p)
    wres,       \* wres[g]: "none", "ok", "err": what Write returned
    wfloor,     \* wfloor[g], while g waits for the mutex: the handle opened by the last Reload that had returned nil when Write was called
    wblocked,   \* wblocked[g], while g waits for the mutex: the Reload goroutine that held it when Write was called, or 0
    lockOrder,  \* the goroutines whose Write has taken the mutex, in the order they took it
    \* ---- goroutines in fileWriter.Reload
    rpc,        \* rpc[g]: "idle", "open" (handle closed, lock held), "done"
    rres,       \* rres[g]: "none", "ok", "skip", "closeErr", "openErr"
    rprior,     \* rprior[g]: the handle f.w held when Reload took the lock
    ropened,    \* ropened[g]: the handle Reload's openFile returned, or NULL
    lastReloaded, \* the handle opened by the last Reload that returned nil, or NULL
    \* ---- fileWriter.Sync
    syn,        \* the Sync call that has just returned: [f, res, h], or NoSync
    \* ---- package zg of src/log.go:1-519, used by one goroutine
    loggers,    \* loggers[l]: the Logger object l: [core, dir, filename, level, stdout, fw]
    nLoggers,   \* Logger objects allocated so far
    born,       \* born[l]: loggers[l] as it was when New, With or Named returned it
    gLogger,    \* the package variable gLogger, a Logger object
    fws,        \* fws[f]: the fileWriter object f of a Logger: [dir, file, w]
    opts,       \* the options the program passes to New: [file, level, stdout]
    lastCall,   \* the last call of the program: its arguments, what it returned and wrote
    proc,       \* "running", "panicked" or "exited"
    \* package slog, second revision (src/unnamed/part_000:325-614)
    logger,     \* var logger *zap.Logger: NULL or the zap logger it points to
    once,       \* var once sync.Once: TRUE when its function has run
    flush,      \* the flush goroutines started, each by the period of its ticker (ms)
    lastSync,   \* the zap logger the last tick called Sync on
    nInst,      \* zap loggers built so far
    environ,    \* LOG_DIR and LOG_FILE of the process
    cpc,        \* cpc[c]: where caller c is in Init or in a facade call
    cop,        \* cop[c]: "Init" or "facade", the call c makes or made last
    ctick,      \* ctick[c]: opts.FlushTick of the initLogger call c is in
    cnil,       \* cnil[c]: c's facade call found logger nil
    cgot,       \* cgot[c]: the logger getLogger returned to c
    defaultInits, \* calls of initLogger(defaultOptions()) so far
    initCalled, \* Init has been called
    \* ---- package zg, the revision with an Option struct (src/unnamed/part_001)
    zapGlobals, \* zap's global logger, what zap.L() returns
    optGLogger, \* var gLogger of this revision: the zap logger in its core field
    optInit,    \* the last Init call: the Option it was given and the error it returned
    optCall,    \* the last facade call since then: its level and what it emitted
    \* ---- the context.Context the program carries (src/log.go:290-342)
    ctx         \* the values set on it, innermost last

fsVars == <<fsDir, fsPath, disk, handles>>
writerVars == <<wpc, wh, wres, wfloor, wblocked, lockOrder>>
reloadVars == <<rpc, rres, rprior, ropened, lastReloaded>>
fwVars == <<fsVars, fw, mux, writerVars, reloadVars>>

loggerVars == <<loggers, nLoggers, born, gLogger, fws, opts, lastCall, proc>>

slogVars == <<logger, once, flush, lastSync, nInst, environ, cpc, cop, ctick, cnil, cgot,
              defaultInits, initCalled>>
optVars == <<zapGlobals, optGLogger, optInit, optCall>>
vars == <<fwVars, syn, loggerVars, slogVars, optVars, ctx>>

(***************************************************************************)
(* openFile (src/log.go:84-116)                                            *)
(***************************************************************************)
FreshHandle == CHOOSE h \in HandleIds : handles[h].state = "unused" /\
                   \A k \in HandleIds : handles[k].state = "unused" => h <= k
FreshInode == CHOOSE n \in HandleIds : Len(disk[n]) = 0 /\
                  (\A d \in Dirs : fsPath[d] # n) /\
                  (\A h \in HandleIds : handles[h].inode # n)

openFileNoKindCheck(dir, filename) ==
    LET d == IF dir = "" THEN "." ELSE dir IN
    IF filename = "" THEN [err |-> "none", nil |-> TRUE]
    ELSE IF fsDir[d] = "absent" THEN [err |-> "stat", nil |-> TRUE]
    ELSE IF fsDir[d] # "dir" THEN [err |-> "notdir", nil |-> TRUE]
    ELSE [err |-> "none", nil |-> FALSE]

\* The outcome of openFile(dir, filename) in the current file system:
\* [err, nil] where nil says "no file" (filename empty), err names the failure.
openFile(dir, filename) ==
    LET d == IF dir = "" THEN "." ELSE dir IN
    IF filename = "" THEN [err |-> "none", nil |-> TRUE]
    ELSE IF fsDir[d] = "absent" THEN [err |-> "stat", nil |-> TRUE]
    ELSE IF fsDir[d] # "dir" THEN [err |-> "notdir", nil |-> TRUE]
    ELSE IF fsPath[d] = -1 THEN [err |-> "isdir", nil |-> TRUE]
    ELSE [err |-> "none", nil |-> FALSE]

\* The effect of a successful os.OpenFile(path, O_CREATE|O_WRONLY|O_APPEND):
\* the file is created when absent, and a new handle refers to it.
OpenedInode(dir) ==
    LET d == IF dir = "" THEN "." ELSE dir IN
    IF fsPath[d] > 0 THEN fsPath[d] ELSE FreshInode

DoOpen(dir) ==
    LET d == IF dir = "" THEN "." ELSE dir IN
    /\ fsPath' = [fsPath EXCEPT ![d] = OpenedInode(dir)]
    /\ handles' = [handles EXCEPT ![FreshHandle] =
                       [state |-> "open", inode |-> OpenedInode(dir)]]

(***************************************************************************)
(* fileWriter.Write (src/log.go:134-138)                                   *)
(***************************************************************************)
\* A goroutine calls Write(p); p is the goroutine's own payload.
WriteCall(g) ==
    /\ wpc[g] = "idle"
    /\ wpc' = [wpc EXCEPT ![g] = "lock"]
    /\ wfloor' = [wfloor EXCEPT ![g] = lastReloaded]
    /\ wblocked' = [wblocked EXCEPT ![g] = IF mux \in Reloaders THEN mux ELSE 0]
    /\ UNCHANGED <<fsVars, fw, mux, wh, wres, lockOrder, reloadVars>>

WriteLockNoMutex(g) == TRUE

\* f.mux.Lock(): the goroutine goes on once the mutex is free.
WriteLock(g) == mux = 0

\* The mutex after the deferred f.mux.Unlock() of goroutine g.
Unlocked(g) == 0

\* f.mux.Lock(), then f.w.Write(p), first piece: f.w is read here. A closed
\* handle fails the whole call with os.ErrClosed and Write returns.
WriteFirst(g) ==
    /\ wpc[g] = "lock"
    /\ WriteLock(g)
    /\ wh' = [wh EXCEPT ![g] = fw.w]
    /\ IF handles[fw.w].state = "open"
       THEN /\ disk' = [disk EXCEPT ![handles[fw.w].inode] =
                            Append(@, [p |-> g, c |-> 1])]
            /\ wpc' = [wpc EXCEPT ![g] = "w2"]
            /\ mux' = g
            /\ UNCHANGED wres
       ELSE /\ wpc' = [wpc EXCEPT ![g] = "done"]
            /\ wres' = [wres EXCEPT ![g] = "err"]
            /\ mux' = Unlocked(g)
            /\ UNCHANGED disk
    /\ wfloor' = [wfloor EXCEPT ![g] = NULL]
    /\ wblocked' = [wblocked EXCEPT ![g] = 0]
    /\ lockOrder' = Append(lockOrder, g)
    /\ UNCHANGED <<fsDir, fsPath, handles, fw, reloadVars>>

\* f.w.Write(p), second piece, then return through the deferred Unlock.
WriteRest(g) ==
    /\ wpc[g] = "w2"
    /\ IF handles[wh[g]].state = "open"
       THEN /\ disk' = [disk EXCEPT ![handles[wh[g]].inode] =
                            Append(@, [p |-> g, c |-> 2])]
            /\ wres' = [wres EXCEPT ![g] = "ok"]
       ELSE /\ wres' = [wres EXCEPT ![g] = "err"]
            /\ UNCHANGED disk
    /\ wpc' = [wpc EXCEPT ![g] = "done"]
    /\ mux' = Unlocked(g)
    /\ UNCHANGED <<fsDir, fsPath, handles, fw, wh, wfloor, wblocked, lockOrder, reloadVars>>

(***************************************************************************)
(* fileWriter.Reload (src/log.go:140-156)                                  *)
(***************************************************************************)
ReloadLockNoMutex(g) == TRUE

\* f.mux.Lock(): the goroutine goes on once the mutex is free.
ReloadLock(g) == mux = 0

CloseFileLeaks(h) == handles

\* The handles after f.w.Close(): the descriptor is released, also when
\* close(2) reports an error.
CloseFile(h) == [handles EXCEPT ![h].state = "closed"]

\* if f == nil || f.w == nil { return nil }
\* f.mux.Lock(); if err := f.w.Close(); err != nil { return err }
\* Close of a closed *os.File fails with os.ErrClosed; close(2) of an open
\* one may fail (ioErr) and releases the descriptor either way.
ReloadClose(g, ioErr) ==
    /\ rpc[g] = "idle"
    /\ IF fw.w = NULL
       THEN /\ rpc' = [rpc EXCEPT ![g] = "done"]
            /\ rres' = [rres EXCEPT ![g] = "skip"]
            /\ UNCHANGED <<handles, mux, rprior>>
       ELSE /\ ReloadLock(g)
            /\ rprior' = [rprior EXCEPT ![g] = fw.w]
            /\ handles' = CloseFile(fw.w)
            /\ IF handles[fw.w].state = "closed" \/ ioErr
               THEN /\ rpc' = [rpc EXCEPT ![g] = "done"]
                    /\ rres' = [rres EXCEPT ![g] = "closeErr"]
                    /\ mux' = Unlocked(g)
               ELSE /\ rpc' = [rpc EXCEPT ![g] = "open"]
                    /\ mux' = g
                    /\ UNCHANGED rres
    /\ UNCHANGED <<fsDir, fsPath, disk, fw, writerVars, ropened, lastReloaded>>

\* The value Reload leaves in f.w given openFile's outcome: the new handle
\* when openFile succeeded, the handle it held otherwise.
ReloadInstallAlways(res, h) == IF res.err = "none" THEN h ELSE NULL

ReloadInstallNever(res, h) == fw.w

ReloadInstall(res, h) == IF res.err = "none" THEN h ELSE fw.w

\* w, err := openFile(f.dir, f.file); if err != nil { return err }; f.w = w; return nil
ReloadOpen(g) ==
    LET res == openFile(fw.dir, fw.file) IN
    /\ rpc[g] = "open"
    /\ IF res.err = "none"
       THEN /\ DoOpen(fw.dir)
            /\ ropened' = [ropened EXCEPT ![g] = FreshHandle]
            /\ rres' = [rres EXCEPT ![g] = "ok"]
            /\ lastReloaded' = FreshHandle
       ELSE /\ rres' = [rres EXCEPT ![g] = "openErr"]
            /\ UNCHANGED <<fsPath, handles, ropened, lastReloaded>>
    /\ fw' = [fw EXCEPT !.w = ReloadInstall(res, FreshHandle)]
    /\ rpc' = [rpc EXCEPT ![g] = "done"]
    /\ mux' = Unlocked(g)
    /\ UNCHANGED <<fsDir, disk, writerVars, rprior>>

(***************************************************************************)
(* The environment: the external rotation tool                             *)
(***************************************************************************)
\* The tool renames dir/filename away; the open handle keeps the old file.
EnvRotate ==
    /\ fsPath[LogDir] > 0
    /\ fsPath' = [fsPath EXCEPT ![LogDir] = 0]
    /\ UNCHANGED <<fsDir, disk, handles, fw, mux, writerVars, reloadVars>>

\* The log directory itself is moved away with the file in it.
EnvMoveDir ==
    /\ fsDir[LogDir] = "dir"
    /\ fsDir' = [fsDir EXCEPT ![LogDir] = "absent"]
    /\ fsPath' = [fsPath EXCEPT ![LogDir] = 0]
    /\ UNCHANGED <<disk, handles, fw, mux, writerVars, reloadVars>>

(***************************************************************************)
(* The steps of the goroutines of a fileWriter and of its environment      *)
(***************************************************************************)
NextWriter ==
    \/ \E g \in Writers : WriteCall(g)
    \/ \E g \in Writers : WriteFirst(g)
    \/ \E g \in Writers : WriteRest(g)
    \/ \E g \in Reloaders, ioErr \in BOOLEAN : ReloadClose(g, ioErr)
    \/ \E g \in Reloaders : ReloadOpen(g)
    \/ EnvRotate
    \/ EnvMoveDir

WriterStep == NextWriter /\ UNCHANGED <<syn, loggerVars, slogVars, optVars, ctx>>

(***************************************************************************)
(* fileWriter.Sync (src/log.go:158-163), called by any goroutine           *)
(***************************************************************************)
\* A *fileWriter as Sync receives it: the nil pointer, or a fileWriter with
\* its handle w.
NilFileWriter == [nil |-> TRUE, w |-> NULL]
FileWriterOf(w) == [nil |-> FALSE, w |-> w]

NoSync == [f |-> NilFileWriter, res |-> "none", h |-> NULL]

\* The receivers Sync is called on: a nil *fileWriter, a fileWriter with no
\* handle, and the fileWriter under test.
SyncReceivers == {NilFileWriter, FileWriterOf(NULL), FileWriterOf(fw.w)}

SyncNoNilCheck(f, ioErr) ==
    IF f.nil \/ f.w = NULL THEN [res |-> "panic", h |-> NULL]
    ELSE IF handles[f.w].state # "open" THEN [res |-> "closed", h |-> f.w]
    ELSE [res |-> IF ioErr THEN "ioerr" ELSE "ok", h |-> f.w]

\* if f == nil || f.w == nil { return nil }; return f.w.Sync()
\* [res, h]: what Sync returns and the handle it called fsync on. Sync of a
\* closed *os.File fails with os.ErrClosed, fsync(2) may fail (ioErr).
SyncResult(f, ioErr) ==
    IF f.nil \/ f.w = NULL THEN [res |-> "ok", h |-> NULL]
    ELSE IF handles[f.w].state # "open" THEN [res |-> "closed", h |-> f.w]
    ELSE [res |-> IF ioErr THEN "ioerr" ELSE "ok", h |-> f.w]

\* One call of Sync: it takes no lock, reads f.w and calls fsync on it.
Sync(f, ioErr) ==
    /\ syn' = [f |-> f, res |-> SyncResult(f, ioErr).res, h |-> SyncResult(f, ioErr).h]
    /\ UNCHANGED <<fwVars, loggerVars, slogVars, optVars, ctx>>

\* Write and Reload calls, and the log directory moved away so that Reload
\* can fail in openFile; they end the moment syn describes.
NextWriteReload ==
    \/ \E g \in Writers : WriteCall(g)
    \/ \E g \in Writers : WriteFirst(g)
    \/ \E g \in Writers : WriteRest(g)
    \/ \E g \in Reloaders, ioErr \in BOOLEAN : ReloadClose(g, ioErr)
    \/ \E g \in Reloaders : ReloadOpen(g)
    \/ EnvMoveDir

NextSync ==
    \/ NextWriteReload /\ syn' = NoSync /\ UNCHANGED <<loggerVars, slogVars, optVars, ctx>>
    \/ \E f \in SyncReceivers, ioErr \in BOOLEAN : Sync(f, ioErr)

(***************************************************************************)
(* Package zg, the revision with Option functions (src/log.go:1-519)       *)
(***************************************************************************)
\* zapcore.Level of the names the package uses.
zapLevel == [debug |-> -1, info |-> 0, warn |-> 1, error |-> 2,
             dpanic |-> 3, panic |-> 4, fatal |-> 5]

\* Logger.Debug, Info, Warn, Error, DPanic, Panic, Fatal (src/log.go:358-399)
CallLevels == {"debug", "info", "warn", "error", "dpanic", "panic", "fatal"}

allowedLevels == {"debug", "info", "warn", "error", "panic", "fatal"}

\* The arguments New is called with: File(dir, filename) or no File option,
\* Level(lvl) or no Level option, Stdout() or not.
FileOpts == {<<"", "">>, <<"", LogFile>>, <<LogDir, LogFile>>}
LevelOpts == {[given |-> FALSE, lvl |-> ""]} \cup
             {[given |-> TRUE, lvl |-> x] : x \in allowedLevels \cup {"WARN", "verbose"}}
NewOpts == [file : FileOpts, level : LevelOpts, stdout : BOOLEAN]
FieldArgs == {<<"a">>}
NameArgs == {"svc"}

\* strings.ToLower on the level names in use
ToLower(str) == IF str = "WARN" THEN "warn" ELSE str

\* zapcore.NewSampler(core, time.Second, 100, 100): of the entries with one
\* level and message in one second, the first SamplerFirst pass, then every
\* SamplerThereafter-th. n is the entry's number within its second.
SamplerFirst == 100
SamplerThereafter == 100
SamplerCounts == {1, SamplerFirst, SamplerFirst + 1, SamplerFirst + SamplerThereafter}

\* What a log call meets: the entry's number n within its second, and
\* whether the write to the file and the write to the console fail.
LogEnvs == {[n |-> n, fileErr |-> FALSE, consoleErr |-> FALSE] : n \in SamplerCounts} \cup
           {[n |-> 1, fileErr |-> fe, consoleErr |-> ce] : fe, ce \in BOOLEAN}
SamplerPasses(n) == ~(n > SamplerFirst /\ (n - SamplerFirst) % SamplerThereafter # 0)

\* A Go interface value of type zapcore.WriteSyncer: the nil interface, or a
\* *fileWriter, which may itself be a nil pointer.
NilInterface == [typ |-> "nil", ptr |-> NULL]
ToWriteSyncer(f) == [typ |-> "*fileWriter", ptr |-> f]
IsNilInterface(i) == i.typ = "nil"

NoCore == [lvl |-> 0, out |-> [kind |-> "none", file |-> NilInterface],
           fields |-> <<>>, name |-> <<>>, sampled |-> FALSE, dev |-> FALSE]
NoLogger == [core |-> NoCore, dir |-> "", filename |-> "", level |-> "",
             stdout |-> FALSE, fw |-> NULL]
NoFileWriter == [dir |-> "", file |-> "", w |-> NULL]

\* init(): gLogger = &Logger{core: zap.NewDevelopment()} (src/log.go:179-187)
DevLogger == [NoLogger EXCEPT !.core =
                 [lvl |-> zapLevel.debug, out |-> [kind |-> "stderr", file |-> NilInterface],
                  fields |-> <<>>, name |-> <<>>, sampled |-> FALSE, dev |-> TRUE]]

LoggerIds == 1..MaxLoggers

\* switch strings.ToLower(level) (src/log.go:22-36)
LogLevelOf(level) ==
    IF ToLower(level) \in {"debug", "info", "warn", "error", "fatal"}
    THEN zapLevel[ToLower(level)]
    ELSE zapLevel.info

SinkOfStdoutOnly(fwi, stdout) ==
    IF stdout THEN [kind |-> "stdout", file |-> NilInterface]
    ELSE [kind |-> "single", file |-> fwi]

\* if stdout { if fw == nil {...} else {...} } (src/log.go:38-44)
SinkOf(fwi, stdout) ==
    IF stdout
    THEN IF IsNilInterface(fwi)
         THEN [kind |-> "stdout", file |-> NilInterface]
         ELSE [kind |-> "multi", file |-> fwi]
    ELSE [kind |-> "single", file |-> fwi]

\* initLogger(level, fw, stdout) (src/log.go:20-67): [err, core]
initLogger(level, fwi, stdout) ==
    LET out == SinkOf(fwi, stdout) IN
    IF out.kind = "single" /\ IsNilInterface(out.file)
    THEN [err |-> "No output writer", core |-> NoCore]
    ELSE [err |-> "none",
          core |-> [lvl |-> LogLevelOf(level), out |-> out, fields |-> <<>>,
                    name |-> <<>>, sampled |-> TRUE, dev |-> FALSE]]

FreshFw == CHOOSE f \in LoggerIds : fws[f] = NoFileWriter /\
               \A k \in LoggerIds : fws[k] = NoFileWriter => f <= k

LevelOptionLenient(lo) == "none"

\* Level(lvl) (src/log.go:228-243): the error the option returns
LevelOptionError(lo) ==
    IF lo.given /\ lo.lvl \notin allowedLevels THEN "Invalid log level" ELSE "none"

NewFailedReplacing(err) ==
    /\ lastCall' = [op |-> "New", err |-> err, logger |-> NULL]
    /\ gLogger' = nLoggers + 1
    /\ UNCHANGED <<loggers, nLoggers, born>>

\* return nil, err (src/log.go:258, 267, 274): no Logger is returned and
\* gLogger is not assigned.
NewFailed(err) ==
    /\ lastCall' = [op |-> "New", err |-> err, logger |-> NULL]
    /\ UNCHANGED <<loggers, nLoggers, born, gLogger>>

\* New(opts...) (src/log.go:254-282)
New(fo, lo, so) ==
    LET dir == fo[1]
        filename == fo[2]
        level == IF lo.given THEN lo.lvl ELSE ""
        opened == openFile(dir, filename)
        f == IF filename # "" THEN FreshFw ELSE NULL
        il == initLogger(level, ToWriteSyncer(f), so)
        l == nLoggers + 1
        obj == [core |-> il.core, dir |-> dir, filename |-> filename,
                level |-> level, stdout |-> so, fw |-> f]
    IN
    /\ proc = "running"
    /\ nLoggers < MaxLoggers
    /\ \E h \in HandleIds : handles[h].state = "unused"
    /\ IF LevelOptionError(lo) # "none"
       THEN /\ NewFailed(LevelOptionError(lo))
            /\ UNCHANGED <<fsPath, handles, fws>>
       ELSE IF filename # "" /\ opened.err # "none"
       THEN /\ NewFailed(opened.err)
            /\ UNCHANGED <<fsPath, handles, fws>>
       ELSE /\ IF filename # ""
               THEN /\ DoOpen(dir)
                    /\ fws' = [fws EXCEPT ![f] = [dir |-> dir, file |-> filename, w |-> FreshHandle]]
               ELSE UNCHANGED <<fsPath, handles, fws>>
            /\ IF il.err # "none"
               THEN NewFailed(il.err)
               ELSE /\ loggers' = [loggers EXCEPT ![l] = obj]
                    /\ born' = [born EXCEPT ![l] = obj]
                    /\ nLoggers' = l
                    /\ gLogger' = l
                    /\ lastCall' = [op |-> "New", err |-> "none", logger |-> l]
    /\ UNCHANGED <<fsDir, disk, opts, proc>>

\* The Logger objects after log.With(fields...), the new one at nLoggers + 1.
WithInPlace(l, fields) ==
    [loggers EXCEPT ![l].core.fields = @ \o fields,
                    ![nLoggers + 1] = [loggers[l] EXCEPT !.core.fields = @ \o fields]]

\* l := log.clone(); l.core = log.core.With(fields...) (src/log.go:284-288, 345-349)
WithObjects(l, fields) ==
    [loggers EXCEPT ![nLoggers + 1] = [loggers[l] EXCEPT !.core.fields = @ \o fields]]

With(l, fields) ==
    /\ proc = "running"
    /\ l <= nLoggers
    /\ nLoggers < MaxLoggers
    /\ loggers' = WithObjects(l, fields)
    /\ born' = [born EXCEPT ![nLoggers + 1] = loggers'[nLoggers + 1]]
    /\ nLoggers' = nLoggers + 1
    /\ lastCall' = [op |-> "With", parent |-> l, logger |-> nLoggers + 1]
    /\ UNCHANGED <<fsVars, gLogger, fws, opts, proc>>

\* zap's Named: the empty name changes nothing, others are joined to the name.
NamedCore(core, name) ==
    IF name = "" THEN core ELSE [core EXCEPT !.name = Append(@, name)]

\* l := log.clone(); l.core = log.core.Named(name) (src/log.go:352-356)
NamedObjects(l, name) ==
    [loggers EXCEPT ![nLoggers + 1] = [loggers[l] EXCEPT !.core = NamedCore(@, name)]]

Named(l, name) ==
    /\ proc = "running"
    /\ l <= nLoggers
    /\ nLoggers < MaxLoggers
    /\ loggers' = NamedObjects(l, name)
    /\ born' = [born EXCEPT ![nLoggers + 1] = loggers'[nLoggers + 1]]
    /\ nLoggers' = nLoggers + 1
    /\ lastCall' = [op |-> "Named", parent |-> l, logger |-> nLoggers + 1]
    /\ UNCHANGED <<fsVars, gLogger, fws, opts, proc>>

\* What one Write on the core's WriteSyncer does. A nil *fileWriter panics in
\* f.mux.Lock() (src/log.go:135); zap's multiWriteSyncer writes to every
\* member in order and joins their errors.
\* [panic, file: "none" | "ok" | "err", console: "none" | "ok" | "err"]
SinkWrite(out, fileErr, consoleErr) ==
    LET fileRes == IF fileErr \/ handles[fws[out.file.ptr].w].state # "open"
                   THEN "err" ELSE "ok"
        consoleRes == IF consoleErr THEN "err" ELSE "ok"
    IN
    IF out.kind \in {"stdout", "stderr"}
    THEN [panic |-> FALSE, file |-> "none", console |-> consoleRes]
    ELSE IF out.file.ptr = NULL
    THEN [panic |-> TRUE, file |-> "none", console |-> "none"]
    ELSE IF out.kind = "single"
    THEN [panic |-> FALSE, file |-> fileRes, console |-> "none"]
    ELSE [panic |-> FALSE, file |-> fileRes, console |-> consoleRes]

\* The state of the process after a call at lvl whose write did or did not panic.
ProcAfter(core, lvl, panicked) ==
    IF panicked THEN "panicked"
    ELSE IF lvl = "fatal" THEN "exited"
    ELSE IF lvl = "panic" \/ (lvl = "dpanic" /\ core.dev) THEN "panicked"
    ELSE "running"

\* log.core.Debug(msg) .. log.core.Fatal(msg) (src/log.go:358-399): the level
\* check of the core, the sampler, then one Write on the WriteSyncer.
\* lastCall tells what the call did: the record, whether it passed the level
\* check and the sampler, the outcome of the write to the file (and the file
\* it landed in) and to the console, and the error of the combined write.
Log(l, lvl, env) ==
    LET core == loggers[l].core
        enabled == zapLevel[lvl] >= core.lvl
        passed == enabled /\ (core.sampled => SamplerPasses(env.n))
        rec == [lvl |-> lvl, fields |-> core.fields, name |-> core.name]
        w == SinkWrite(core.out, env.fileErr, env.consoleErr)
    IN
    /\ proc = "running"
    /\ l <= nLoggers
    /\ IF passed
       THEN /\ lastCall' = [op |-> "Log", logger |-> l, lvl |-> lvl, passed |-> TRUE,
                            sampledOut |-> FALSE, rec |-> rec, panic |-> w.panic,
                            file |-> w.file, console |-> w.console,
                            inode |-> IF w.file = "ok"
                                      THEN handles[fws[core.out.file.ptr].w].inode ELSE 0,
                            env |-> env,
                            err |-> (w.file = "err" \/ w.console = "err")]
            /\ proc' = ProcAfter(core, lvl, w.panic)
       ELSE /\ lastCall' = [op |-> "Log", logger |-> l, lvl |-> lvl, passed |-> FALSE,
                            sampledOut |-> enabled, rec |-> rec, panic |-> FALSE,
                            file |-> "none", console |-> "none", inode |-> 0,
                            env |-> env, err |-> FALSE]
            /\ proc' = ProcAfter(core, lvl, FALSE)
    /\ UNCHANGED <<fsVars, loggers, nLoggers, born, gLogger, fws, opts>>

(***************************************************************************)
(* Package slog, second revision (src/unnamed/part_000:325-614): Init, the *)
(* facade functions and the flush goroutine, called by NumCallers          *)
(* goroutines. The package variable logger is read and written without a   *)
(* lock; each read and each write of it is one step.                       *)
(***************************************************************************)
Callers == 1..NumCallers
InstanceIds == 1..MaxInstances

\* minFlushTick = 100 * time.Millisecond, in milliseconds
minFlushTick == 100

\* The Options Init is called with: Dir, Filename, Stdout and FlushTick (ms).
SlogOpts ==
    {[Dir |-> IF f = "" THEN "" ELSE LogDir, Filename |-> f, Stdout |-> so, FlushTick |-> t] :
        f \in {"", LogFile}, so \in BOOLEAN, t \in {0, 250}}

NoEnviron == [LOG_DIR |-> "", LOG_FILE |-> ""]
Environs == {NoEnviron, [LOG_DIR |-> LogDir, LOG_FILE |-> LogFile]}

\* defaultOptions() (src/unnamed/part_000:482-517): the fields initLogger reads
defaultOptions ==
    [Dir |-> IF environ.LOG_DIR = "" THEN "." ELSE environ.LOG_DIR,
     Filename |-> environ.LOG_FILE,
     Stdout |-> (environ.LOG_FILE = ""),
     FlushTick |-> 0]

\* normalizeFilepath(dir, filename) (src/unnamed/part_000:348-367): a missing
\* directory is created, a path that is no directory is an error.
normalizeFilepath(dir, filename) ==
    IF fsDir[dir] = "absent" THEN [err |-> "none", mkdir |-> TRUE]
    ELSE IF fsDir[dir] # "dir" THEN [err |-> "not a valid directory", mkdir |-> FALSE]
    ELSE [err |-> "none", mkdir |-> FALSE]

\* The part of initLogger(opts) that builds outWriter
\* (src/unnamed/part_000:371-411): [err, mkdir]
OutWriter(o) ==
    LET dir == IF o.Dir = "" THEN "." ELSE o.Dir
        nf == normalizeFilepath(dir, o.Filename)
    IN
    IF o.Filename # "" THEN nf
    ELSE IF ~o.Stdout THEN [err |-> "No output writer", mkdir |-> FALSE]
    ELSE [err |-> "none", mkdir |-> FALSE]

\* No goroutine has panicked.
Alive == \A c \in Callers : cpc[c] # "panicked"

\* Caller c enters initLogger(o) and builds outWriter; failed is where c
\* goes when initLogger returns an error.
initLoggerEnter(c, o, failed) ==
    LET ow == OutWriter(o)
        dir == IF o.Dir = "" THEN "." ELSE o.Dir
    IN
    /\ fsDir' = IF ow.mkdir THEN [fsDir EXCEPT ![dir] = "dir"] ELSE fsDir
    /\ cpc' = [cpc EXCEPT ![c] = IF ow.err = "none" THEN "assign" ELSE failed]
    /\ ctick' = [ctick EXCEPT ![c] = IF ow.err = "none" THEN o.FlushTick ELSE 0]

\* Init(opts) (src/unnamed/part_000:475-480) up to the point where
\* initLogger has built outWriter; the error of initLogger is dropped.
InitCall(c, o) ==
    /\ Alive
    /\ cpc[c] = "idle"
    /\ nInst + Cardinality({k \in Callers : cpc[k] \in {"default", "assign"}}) < MaxInstances
    /\ initLoggerEnter(c, o, "idle")
    /\ cop' = [cop EXCEPT ![c] = "Init"]
    /\ cnil' = [cnil EXCEPT ![c] = FALSE]
    /\ cgot' = [cgot EXCEPT ![c] = NULL]
    /\ initCalled' = TRUE
    /\ UNCHANGED <<logger, once, flush, lastSync, nInst, environ, defaultInits>>

\* A facade function calls getLogger(): if logger == nil
\* (src/unnamed/part_000:520-521)
getLogger(c) ==
    /\ Alive
    /\ cpc[c] = "idle"
    /\ logger = NULL =>
           nInst + Cardinality({k \in Callers : cpc[k] \in {"default", "assign"}}) < MaxInstances
    /\ cpc' = [cpc EXCEPT ![c] = IF logger = NULL THEN "default" ELSE "return"]
    /\ cop' = [cop EXCEPT ![c] = "facade"]
    /\ cnil' = [cnil EXCEPT ![c] = (logger = NULL)]
    /\ cgot' = [cgot EXCEPT ![c] = NULL]
    /\ UNCHANGED <<fsDir, logger, once, flush, lastSync, nInst, environ, ctick,
                   defaultInits, initCalled>>

\* opts := defaultOptions(); err := initLogger(opts); if err != nil { panic(err) }
\* (src/unnamed/part_000:522-526), up to the point where outWriter is built
DefaultInit(c) ==
    /\ Alive
    /\ cpc[c] = "default"
    /\ initLoggerEnter(c, defaultOptions, "panicked")
    /\ defaultInits' = defaultInits + 1
    /\ UNCHANGED <<logger, once, flush, lastSync, nInst, environ, cop, cnil, cgot,
                   initCalled>>

\* logger = zap.New(...) (src/unnamed/part_000:428)
InitAssign(c) ==
    /\ Alive
    /\ cpc[c] = "assign"
    /\ nInst' = nInst + 1
    /\ logger' = nInst + 1
    /\ cpc' = [cpc EXCEPT ![c] = "once"]
    /\ UNCHANGED <<fsDir, once, flush, lastSync, environ, cop, ctick, cnil, cgot,
                   defaultInits, initCalled>>

OnceDoAlways(flushTick) == Append(flush, flushTick)

\* once.Do(func() { go func() { ... }() }) (src/unnamed/part_000:431-444): the
\* flush goroutines after the call
OnceDo(flushTick) == IF once THEN flush ELSE Append(flush, flushTick)

\* flushTick := opts.FlushTick; if flushTick < minFlushTick { flushTick = minFlushTick }
FlushTickOf(t) == IF t < minFlushTick THEN minFlushTick ELSE t

\* The once.Do of initLogger and its return nil; Init returns, getLogger goes
\* on to its return statement.
InitOnce(c) ==
    /\ Alive
    /\ cpc[c] = "once"
    /\ flush' = OnceDo(FlushTickOf(ctick[c]))
    /\ once' = TRUE
    /\ cpc' = [cpc EXCEPT ![c] = IF cop[c] = "Init" THEN "idle" ELSE "return"]
    /\ ctick' = [ctick EXCEPT ![c] = 0]
    /\ UNCHANGED <<fsDir, logger, lastSync, nInst, environ, cop, cnil, cgot,
                   defaultInits, initCalled>>

\* return logger (src/unnamed/part_000:528)
GetReturn(c) ==
    /\ Alive
    /\ cpc[c] = "return"
    /\ cgot' = [cgot EXCEPT ![c] = logger]
    /\ cpc' = [cpc EXCEPT ![c] = "idle"]
    /\ UNCHANGED <<fsDir, logger, once, flush, lastSync, nInst, environ, cop, ctick, cnil,
                   defaultInits, initCalled>>

TickTargetFirst(k) == 1

\* The logger a tick of flush goroutine k calls Sync on: the closure reads
\* the package variable logger at every tick.
TickTarget(k) == logger

\* One tick of flush goroutine k: if logger != nil { logger.Sync() }
\* (src/unnamed/part_000:438-442)
Tick(k) ==
    /\ Alive
    /\ k \in 1..Len(flush)
    /\ logger # NULL
    /\ lastSync' = TickTarget(k)
    /\ UNCHANGED <<fsDir, logger, once, flush, nInst, environ, cpc, cop, ctick, cnil, cgot,
                   defaultInits, initCalled>>

\* Package slog before its first call.
SlogIdle ==
    /\ logger = NULL
    /\ once = FALSE
    /\ flush = <<>>
    /\ lastSync = NULL
    /\ nInst = 0
    /\ cpc = [c \in Callers |-> "idle"]
    /\ cop = [c \in Callers |-> "none"]
    /\ ctick = [c \in Callers |-> 0]
    /\ cnil = [c \in Callers |-> FALSE]
    /\ cgot = [c \in Callers |-> NULL]
    /\ defaultInits = 0
    /\ initCalled = FALSE

NextSlog ==
    \/ \E c \in Callers, o \in SlogOpts : InitCall(c, o)
    \/ \E c \in Callers : getLogger(c)
    \/ \E c \in Callers : DefaultInit(c)
    \/ \E c \in Callers : InitAssign(c)
    \/ \E c \in Callers : InitOnce(c)
    \/ \E c \in Callers : GetReturn(c)
    \/ \E k \in 1..MaxInstances : Tick(k)

SlogStep ==
    NextSlog /\ UNCHANGED <<fsPath, disk, handles, fw, mux, writerVars, reloadVars, syn, loggerVars,
                          optVars, ctx>>

(***************************************************************************)
(* The package-level Reload (src/log.go:318-324)                           *)
(***************************************************************************)
\* Reload(): if gLogger != nil && gLogger.fw != nil { return gLogger.fw.Reload() };
\* return nil. fileWriter.Reload (src/log.go:140-156) runs to its return in
\* the calling goroutine: nil when the fileWriter has no handle; else Close,
\* whose error is returned; else openFile, whose error is returned with the
\* closed handle left in f.w; else f.w = w. closeErr: close(2) fails.
\* lastCall tells the fileWriter reloaded and the handles the call opened.
Reload(closeErr) ==
    LET f == loggers[gLogger].fw
        fo == IF f = NULL THEN NoFileWriter ELSE fws[f]
        d == IF fo.dir = "" THEN "." ELSE fo.dir
        res == openFile(fo.dir, fo.file)
    IN
    /\ proc = "running"
    /\ \E h \in HandleIds : handles[h].state = "unused"
    /\ IF fo.w = NULL
       THEN /\ lastCall' = [op |-> "Reload", err |-> "none", fw |-> NULL, opened |-> {}]
            /\ UNCHANGED <<fsPath, handles, fws>>
       ELSE IF handles[fo.w].state = "closed" \/ closeErr
       THEN /\ handles' = CloseFile(fo.w)
            /\ lastCall' = [op |-> "Reload", err |-> "closeErr", fw |-> f, opened |-> {}]
            /\ UNCHANGED <<fsPath, fws>>
       ELSE IF res.err # "none"
       THEN /\ handles' = CloseFile(fo.w)
            /\ lastCall' = [op |-> "Reload", err |-> res.err, fw |-> f, opened |-> {}]
            /\ UNCHANGED <<fsPath, fws>>
       ELSE /\ handles' = [CloseFile(fo.w) EXCEPT ![FreshHandle] =
                              [state |-> "open", inode |-> OpenedInode(fo.dir)]]
            /\ fsPath' = [fsPath EXCEPT ![d] = OpenedInode(fo.dir)]
            /\ fws' = [fws EXCEPT ![f].w = FreshHandle]
            /\ lastCall' = [op |-> "Reload", err |-> "none", fw |-> f,
                            opened |-> {FreshHandle}]
    /\ UNCHANGED <<fsDir, disk, loggers, nLoggers, born, gLogger, opts, proc>>

\* The programs that reload: New is called with logs/app.log, with or
\* without stdout.
ReloadOpts ==
    {[file |-> <<LogDir, LogFile>>, level |-> [given |-> FALSE, lvl |-> ""], stdout |-> so] :
        so \in BOOLEAN}

NextReload ==
    \/ New(opts.file, opts.level, opts.stdout)
    \/ \E l \in LoggerIds, fields \in FieldArgs : With(l, fields)
    \/ \E l \in LoggerIds : Log(l, "info", [n |-> 1, fileErr |-> FALSE, consoleErr |-> FALSE])
    \/ \E closeErr \in BOOLEAN : Reload(closeErr)
    \/ EnvRotate /\ UNCHANGED loggerVars
    \/ EnvMoveDir /\ UNCHANGED loggerVars

ReloadStep ==
    NextReload /\ UNCHANGED <<fw, mux, writerVars, reloadVars, syn, slogVars, optVars, ctx>>

(***************************************************************************)
(* Package zg, the revision with an Option struct (src/unnamed/part_001)   *)
(***************************************************************************)
\* zap.L() before any ReplaceGlobals: the no-op logger, whose core is
\* enabled at no level and writes nowhere.
NopLogger == [nop |-> TRUE, lvl |-> 0, sampled |-> FALSE, stdout |-> FALSE, file |-> FALSE]

\* The Option values Init is called with: Dir, Filename, Level, Stdout.
OptionLevels == {"", "debug", "info", "warn", "error", "fatal", "WARN", "verbose"}
Options == [Dir : {"", LogDir}, Filename : {"", LogFile}, Level : OptionLevels,
            Stdout : BOOLEAN]

\* switch strings.ToLower(opts.Level): the five names, info for any other.
optLogLevel(level) ==
    IF ToLower(level) \in {"debug", "info", "warn", "error", "fatal"}
    THEN zapLevel[ToLower(level)]
    ELSE zapLevel["info"]

\* initLogger(opts): opts.Dir becomes "." when a Filename is given without a
\* Dir; outWriter is set from opts.Stdout alone, and stays nil without it;
\* the zap logger is a sampled core at the level of opts.Level on outWriter.
initLoggerOpt(o) ==
    LET o2 == IF o.Filename # "" /\ o.Dir = "" THEN [o EXCEPT !.Dir = "."] ELSE o IN
    IF ~o.Stdout
    THEN [err |-> "nowriter", logger |-> NopLogger, opts |-> o2]
    ELSE [err |-> "none", opts |-> o2,
          logger |-> [nop |-> FALSE, lvl |-> optLogLevel(o.Level), sampled |-> TRUE,
                      stdout |-> TRUE, file |-> FALSE]]

NoOptInit == [op |-> "none"]
NoFacadeCall == [op |-> "none"]

\* Init(opts): _, err := initLogger(opts); return err. initLogger ends with
\* zap.ReplaceGlobals(logger); nothing assigns gLogger.
InitOpt(o) ==
    LET r == initLoggerOpt(o) IN
    /\ proc = "running"
    /\ optInit' = [op |-> "Init", opts |-> r.opts, err |-> r.err]
    /\ zapGlobals' = IF r.err = "none" THEN r.logger ELSE zapGlobals
    /\ optCall' = NoFacadeCall
    /\ UNCHANGED <<optGLogger, proc>>

\* The package-level Debug, Info, Warn, Error, Panic and Fatal.
FacadeLevels == {"debug", "info", "warn", "error", "panic", "fatal"}

\* Info(msg) and its siblings: gLogger.Info(msg), that is gLogger.core.Info(msg).
\* n is the entry's number within its second, for the sampler.
Facade(lvl, n) ==
    LET core == optGLogger
        enabled == ~core.nop /\ zapLevel[lvl] >= core.lvl
        passed == enabled /\ (core.sampled => SamplerPasses(n))
    IN
    /\ proc = "running"
    /\ optCall' = [op |-> "facade", lvl |-> lvl, n |-> n, passed |-> passed,
                   stdout |-> passed /\ core.stdout, file |-> passed /\ core.file]
    /\ proc' = IF lvl = "fatal" THEN "exited"
               ELSE IF lvl = "panic" THEN "panicked" ELSE "running"
    /\ UNCHANGED <<zapGlobals, optGLogger, optInit>>

\* var gLogger = newNoOp(): its core is zap.L() as it is when the package is
\* initialised.
OptionIdle ==
    /\ zapGlobals = NopLogger
    /\ optGLogger = NopLogger
    /\ optInit = NoOptInit
    /\ optCall = NoFacadeCall

NextOption ==
    \/ \E o \in Options : InitOpt(o)
    \/ \E lvl \in FacadeLevels, n \in SamplerCounts : Facade(lvl, n)

OptionStep ==
    NextOption /\ UNCHANGED <<fwVars, syn, loggers, nLoggers, born, gLogger, fws, opts,
                              lastCall, slogVars, ctx>>

(***************************************************************************)
(* Trace IDs carried by a context (src/log.go:290-342)                     *)
(***************************************************************************)
\* A context is the chain of the values set on it, innermost last; each
\* link is [key, val]. The package's key is traceKey; a program's own keys
\* are of other types and never equal to it.
MaxCtxDepth == 2
traceKey == "traceKey"
dftTraceKey == "zgtrace"

\* The IDs newTraceID() can return, and the IDs a caller gives TraceWith.
TraceIds == {"t1", "t2"}
GivenIds == TraceIds \cup {""}

\* context.Background()
Background == <<>>

\* context.WithValue(c, key, val)
WithValue(c, key, val) == Append(c, [key |-> key, val |-> val])

RECURSIVE Value(_, _)
\* c.Value(key): the innermost link with that key, nil when there is none.
Value(c, key) ==
    IF c = <<>> THEN [nil |-> TRUE, val |-> ""]
    ELSE IF c[Len(c)].key = key THEN [nil |-> FALSE, val |-> c[Len(c)].val]
    ELSE Value(SubSeq(c, 1, Len(c) - 1), key)

\* TraceID(ctx): the string under traceKey, "" when there is none.
TraceID(c) == IF Value(c, traceKey).nil THEN "" ELSE Value(c, traceKey).val

\* String(key, val): the field as the encoder writes it.
String(key, val) == key \o "=" \o val

\* ctx = Trace(ctx): id := newTraceID(); context.WithValue(ctx, traceKey, id)
Trace(id) ==
    /\ proc = "running"
    /\ Len(ctx) < MaxCtxDepth
    /\ ctx' = WithValue(ctx, traceKey, id)
    /\ UNCHANGED <<fsVars, loggerVars>>

\* ctx = TraceWith(ctx, id)
TraceWith(id) ==
    /\ proc = "running"
    /\ Len(ctx) < MaxCtxDepth
    /\ ctx' = WithValue(ctx, traceKey, id)
    /\ UNCHANGED <<fsVars, loggerVars>>

\* The program derives a context: a value under a key of its own.
Derive ==
    /\ proc = "running"
    /\ Len(ctx) < MaxCtxDepth
    /\ ctx' = WithValue(ctx, "userKey", "u")
    /\ UNCHANGED <<fsVars, loggerVars>>

InTraceValueFresh(c, fresh) == fresh

\* The value In binds: the string under traceKey, or a new trace ID when
\* the context has none.
InTraceValue(c, fresh) == IF Value(c, traceKey).nil THEN fresh ELSE Value(c, traceKey).val

\* In(ctx): gLogger.With(String(dftTraceKey, v)); fresh is what newTraceID()
\* would return.
In(fresh) ==
    /\ proc = "running"
    /\ nLoggers < MaxLoggers
    /\ loggers' = WithObjects(gLogger, <<String(dftTraceKey, InTraceValue(ctx, fresh))>>)
    /\ born' = [born EXCEPT ![nLoggers + 1] = loggers'[nLoggers + 1]]
    /\ nLoggers' = nLoggers + 1
    /\ lastCall' = [op |-> "In", parent |-> gLogger, logger |-> nLoggers + 1, ctx |-> ctx]
    /\ UNCHANGED <<fsVars, gLogger, fws, opts, proc, ctx>>

\* A traced program logs to logs/app.log and stdout, at info and error,
\* undisturbed.
TraceOpts == [file |-> <<LogDir, LogFile>>, level |-> [given |-> FALSE, lvl |-> ""],
              stdout |-> TRUE]
TraceEnv == [n |-> 1, fileErr |-> FALSE, consoleErr |-> FALSE]

NextTrace ==
    \/ New(opts.file, opts.level, opts.stdout) /\ UNCHANGED ctx
    \/ \E id \in TraceIds : Trace(id)
    \/ \E id \in GivenIds : TraceWith(id)
    \/ Derive
    \/ \E fresh \in TraceIds : In(fresh)
    \/ \E l \in LoggerIds, lvl \in {"info", "error"} : Log(l, lvl, TraceEnv) /\ UNCHANGED ctx

TraceStep ==
    NextTrace /\ UNCHANGED <<fw, mux, writerVars, reloadVars, syn, slogVars, optVars>>


\* The variables of package zg before New is called for the first time.
LoggerIdle ==
    /\ loggers = [l \in LoggerIds |-> IF l = 1 THEN DevLogger ELSE NoLogger]
    /\ born = [l \in LoggerIds |-> IF l = 1 THEN DevLogger ELSE NoLogger]
    /\ nLoggers = 1
    /\ gLogger = 1
    /\ fws = [f \in LoggerIds |-> NoFileWriter]
    /\ lastCall = [op |-> "none"]
    /\ proc = "running"

\* The file system the process starts in: the log directory exists, is
\* missing or is a regular file, and logs/app.log is absent or a directory.
FsStates ==
    {<<[d \in Dirs |-> IF d = LogDir THEN k ELSE "dir"],
       [d \in Dirs |-> IF d = LogDir THEN p ELSE 0]>> :
        k \in {"dir", "absent", "file"}, p \in {0, -1}}

\* The process after init(): no file is open and no Write or Reload runs.
InitProcess(fs) ==
    /\ fsDir = fs[1]
    /\ fsPath = fs[2]
    /\ disk = [n \in HandleIds |-> <<>>]
    /\ handles = [h \in HandleIds |-> [state |-> "unused", inode |-> 0]]
    /\ fw = NoFileWriter
    /\ mux = 0
    /\ wpc = [g \in Writers |-> "idle"]
    /\ wh = [g \in Writers |-> NULL]
    /\ wres = [g \in Writers |-> "none"]
    /\ wfloor = [g \in Writers |-> NULL]
    /\ wblocked = [g \in Writers |-> 0]
    /\ lockOrder = <<>>
    /\ rpc = [g \in Reloaders |-> "idle"]
    /\ rres = [g \in Reloaders |-> "none"]
    /\ rprior = [g \in Reloaders |-> NULL]
    /\ ropened = [g \in Reloaders |-> NULL]
    /\ lastReloaded = NULL
    /\ syn = NoSync
    /\ LoggerIdle
    /\ SlogIdle
    /\ OptionIdle
    /\ ctx = Background

PlainFs == <<[d \in Dirs |-> "dir"], [d \in Dirs |-> 0]>>

\* A program that builds loggers with New and logs: any options, and any
\* state of the log directory when the options name it.
InitLogger ==
    /\ opts \in NewOpts
    /\ environ = NoEnviron
    /\ \E fs \in FsStates :
          /\ fs[1][LogDir] # "dir" => fs[2][LogDir] = 0
          /\ opts.file[1] # LogDir => fs = PlainFs
          /\ InitProcess(fs)

\* A program that derives loggers with With and Named: New is called with a
\* file and stdout, or with stdout alone at level warn.
DeriveOpts ==
    {[file |-> <<LogDir, LogFile>>, level |-> [given |-> FALSE, lvl |-> ""], stdout |-> TRUE],
     [file |-> <<"", "">>, level |-> [given |-> TRUE, lvl |-> "warn"], stdout |-> TRUE]}

\* The program of the fileWriter specification logs to logs/app.log alone.
WriterOpts == [file |-> <<LogDir, LogFile>>, level |-> [given |-> FALSE, lvl |-> ""],
               stdout |-> FALSE]

\* newFileWriter(LogDir, LogFile) has returned fw (src/log.go:118-132): handle 1
\* is open on file 1, and no goroutine is in Write or Reload.
InitWriter ==
    /\ fsDir = [d \in Dirs |-> "dir"]
    /\ fsPath = [d \in Dirs |-> IF d = LogDir THEN 1 ELSE 0]
    /\ disk = [n \in HandleIds |-> <<>>]
    /\ handles = [h \in HandleIds |->
                     IF h = 1 THEN [state |-> "open", inode |-> 1]
                     ELSE [state |-> "unused", inode |-> 0]]
    /\ fw = [dir |-> LogDir, file |-> LogFile, w |-> 1]
    /\ mux = 0
    /\ wpc = [g \in Writers |-> "idle"]
    /\ wh = [g \in Writers |-> NULL]
    /\ wres = [g \in Writers |-> "none"]
    /\ wfloor = [g \in Writers |-> NULL]
    /\ wblocked = [g \in Writers |-> 0]
    /\ lockOrder = <<>>
    /\ rpc = [g \in Reloaders |-> "idle"]
    /\ rres = [g \in Reloaders |-> "none"]
    /\ rprior = [g \in Reloaders |-> NULL]
    /\ ropened = [g \in Reloaders |-> NULL]
    /\ lastReloaded = NULL
    /\ syn = NoSync
    /\ LoggerIdle
    /\ SlogIdle
    /\ OptionIdle
    /\ ctx = Background
    /\ environ = NoEnviron
    /\ opts = WriterOpts

\* A process that uses package slog: any LOG_DIR and LOG_FILE, the log
\* directory present, missing or a regular file.
InitSlog ==
    /\ environ \in Environs
    /\ opts = WriterOpts
    /\ \E fs \in FsStates : fs[2] = PlainFs[2] /\ InitProcess(fs)

InitDerive ==
    /\ opts \in DeriveOpts
    /\ environ = NoEnviron
    /\ InitProcess(PlainFs)

\* A program that traces its contexts: no logger built yet, the context is
\* context.Background().
InitTrace ==
    /\ opts = TraceOpts
    /\ environ = NoEnviron
    /\ InitProcess(PlainFs)

\* A program that builds loggers on logs/app.log and reloads them.
InitReload ==
    /\ opts \in ReloadOpts
    /\ environ = NoEnviron
    /\ InitProcess(PlainFs)

\* A program that uses the Option-struct revision: nothing has been called.
InitOption ==
    /\ opts = WriterOpts
    /\ environ = NoEnviron
    /\ InitProcess(PlainFs)

NextLogger ==
    \/ New(opts.file, opts.level, opts.stdout)
    \/ \E l \in LoggerIds, lvl \in CallLevels, env \in LogEnvs : Log(l, lvl, env)

NextDerive ==
    \/ New(opts.file, opts.level, opts.stdout)
    \/ \E l \in LoggerIds, fields \in FieldArgs : With(l, fields)
    \/ \E l \in LoggerIds, name \in NameArgs : Named(l, name)
    \/ \E l \in LoggerIds, lvl \in CallLevels, env \in LogEnvs : Log(l, lvl, env)

LoggerStep ==
    NextLogger /\ UNCHANGED <<fw, mux, writerVars, reloadVars, syn, slogVars, optVars, ctx>>

DeriveStep ==
    NextDerive /\ UNCHANGED <<fw, mux, writerVars, reloadVars, syn, slogVars, optVars, ctx>>

(***************************************************************************)
(* Specifications                                                          *)
(***************************************************************************)
SpecWriter == InitWriter /\ [][WriterStep]_vars

SpecSync == InitWriter /\ [][NextSync]_vars

SpecLogger == InitLogger /\ [][LoggerStep]_vars

SpecDerive == InitDerive /\ [][DeriveStep]_vars

SpecSlog == InitSlog /\ [][SlogStep]_vars

SpecOption == InitOption /\ [][OptionStep]_vars

SpecTrace == InitTrace /\ [][TraceStep]_vars

SpecReload == InitReload /\ [][ReloadStep]_vars

(***************************************************************************)
(* Claims about fileWriter, checked under SpecWriter                       *)
(***************************************************************************)
FailedReload(r) == rres[r] \in {"closeErr", "openErr"}

\* Both pieces of g's payload are in the file g's handle refers to, adjacent.
InFile(g) ==
    /\ wh[g] # NULL
    /\ LET f == disk[handles[wh[g]].inode] IN
       \E i \in 1..Len(f) : /\ f[i] = [p |-> g, c |-> 1]
                            /\ i < Len(f)
                            /\ f[i + 1] = [p |-> g, c |-> 2]

\* Every file is a concatenation of whole payloads, but for the payload
\* whose second piece is still being written.
WholePayloads ==
    \A n \in HandleIds : \A i \in 1..Len(disk[n]) :
        LET e == disk[n][i] IN
        /\ e.c = 1 => IF i < Len(disk[n])
                      THEN disk[n][i + 1] = [p |-> e.p, c |-> 2]
                      ELSE wpc[e.p] = "w2"
        /\ e.c = 2 => i > 1 /\ disk[n][i - 1] = [p |-> e.p, c |-> 1]

\* C1: concurrent Writes are mutually exclusive: at most one goroutine is
\* inside the underlying file write, and every file is a concatenation of
\* whole payloads, none interleaved with another.
C1_WritesMutuallyExclusive ==
    /\ Cardinality({g \in Writers : wpc[g] = "w2"}) <= 1
    /\ WholePayloads

C1_Witness ==
    /\ \A g \in Writers : wres[g] = "ok"
    /\ \E n \in HandleIds : Len(disk[n]) = 2 * NumWriters

\* C2 as stated: in every interleaving of Reload and Write, every Write that
\* has returned was performed on an open handle and its payload is in the file.
C2_NoWriteLostOrOnClosedHandle ==
    \A g \in Writers : wpc[g] = "done" => wres[g] = "ok" /\ InFile(g)

\* C2 amended: as long as no Reload has failed, every Write that has returned
\* was performed on an open handle and its payload is in the file; a Write
\* fails only on the closed handle a failed Reload left behind, and a Write
\* that reported success is never missing from its file.
C2_NoWriteLostUnlessReloadFailed ==
    \A g \in Writers :
        /\ wpc[g] = "done" /\ (\A r \in Reloaders : ~FailedReload(r))
               => wres[g] = "ok" /\ InFile(g)
        /\ wres[g] = "ok" => InFile(g)
        /\ wres[g] = "err" => /\ handles[wh[g]].state = "closed"
                              /\ \E r \in Reloaders : FailedReload(r)

C2_Witness ==
    /\ \A r \in Reloaders : rres[r] = "ok"
    /\ \A g \in Writers : wres[g] = "ok"
    /\ \E g1, g2 \in Writers : handles[wh[g1]].inode # handles[wh[g2]].inode

\* C3: a Write called while a Reload holds the lock goes on to the file
\* only when no Reload holds the lock, and when that Reload succeeded it
\* writes to a handle that Reload or a later one opened, not to the
\* pre-reload handle; a Write called after a Reload returned nil writes to
\* the handle that Reload opened or a later one, the one installed in f.w.
C3_WriteAfterSwapUsesNewHandle ==
    [][\A g \in Writers : wpc[g] = "lock" /\ wpc'[g] # "lock" =>
          /\ \A r \in Reloaders : rpc[r] # "open"
          /\ wh'[g] = fw.w
          /\ wblocked[g] # 0 /\ rres[wblocked[g]] = "ok"
                 => /\ wh'[g] # rprior[wblocked[g]]
                    /\ wh'[g] >= ropened[wblocked[g]]
          /\ wfloor[g] # NULL => wh'[g] >= wfloor[g]]_vars

\* A Write that was called during a Reload is still waiting, that Reload has
\* returned nil after the file was rotated, and its handle is installed.
C3_Witness ==
    \E g \in Writers :
        /\ wpc[g] = "lock"
        /\ wblocked[g] # 0
        /\ rres[wblocked[g]] = "ok"
        /\ fw.w = ropened[wblocked[g]]
        /\ handles[fw.w].inode # 1
        /\ \E k \in Writers : wres[k] = "ok" /\ wh[k] = rprior[wblocked[g]]

\* C10: a Reload that failed in Close or in openFile has returned the error
\* after one attempt, opened no handle, and left f.w the handle it found,
\* which is closed.
C10_FailedReloadLeavesClosedHandle ==
    \A r \in Reloaders : FailedReload(r) =>
        /\ rpc[r] = "done"
        /\ ropened[r] = NULL
        /\ fw.w = rprior[r]
        /\ handles[fw.w].state = "closed"

C10_Witness ==
    \E r1, r2 \in Reloaders : rres[r1] = "openErr" /\ rres[r2] = "closeErr"

(***************************************************************************)
(* Claims about New and the log methods, checked under SpecLogger          *)
(***************************************************************************)
\* Logger 1 is the development logger of init(); the others were built by New.
BuiltByNew(l) == l > 1 /\ l <= nLoggers

NoDestination == opts.file[2] = "" /\ ~opts.stdout

\* C4: New called with no filename and without the Stdout option returns a
\* non-nil error and no logger.
C4_NoDestinationFails ==
    lastCall.op = "New" /\ NoDestination
        => lastCall.err # "none" /\ lastCall.logger = NULL

FiveLevels == {"debug", "info", "warn", "error", "fatal"}

\* The record of the last log call reached a destination.
Emitted == lastCall.file = "ok" \/ lastCall.console = "ok"

\* The last log call was the first entry of its second and met no write error.
Undisturbed == lastCall.env = [n |-> 1, fileErr |-> FALSE, consoleErr |-> FALSE]

\* C6: for every pair (configured minimum level, call level) over debug,
\* info, warn, error, fatal, a log call on a logger built by New is emitted
\* to the destination if and only if the call level is greater than or equal
\* to the configured minimum level. Stated for calls the sampler lets
\* through and whose writes meet no I/O error.
C6_EmittedIffAtLeastMinimum ==
    /\ lastCall.op = "Log"
    /\ BuiltByNew(lastCall.logger)
    /\ opts.level.given /\ opts.level.lvl \in FiveLevels
    /\ lastCall.lvl \in FiveLevels
    /\ Undisturbed
    => (Emitted <=> zapLevel[lastCall.lvl] >= zapLevel[opts.level.lvl])

\* C7: when both a file and stdout are configured, every emitted record is
\* written to both destinations: the write is attempted on each whatever the
\* outcome on the other, a record that meets no error is in the file and on
\* the console, and the combined write reports failure if and only if one of
\* the two failed.
C7_BothDestinationsWritten ==
    /\ lastCall.op = "Log"
    /\ BuiltByNew(lastCall.logger)
    /\ opts.file[2] # "" /\ opts.stdout
    /\ lastCall.passed
    => /\ lastCall.file = (IF lastCall.env.fileErr THEN "err" ELSE "ok")
       /\ lastCall.console = (IF lastCall.env.consoleErr THEN "err" ELSE "ok")
       /\ lastCall.file = "ok" =>
              lastCall.inode = handles[fws[loggers[lastCall.logger].fw].w].inode
       /\ lastCall.err <=> (lastCall.file = "err" \/ lastCall.console = "err")
       /\ ~lastCall.panic

\* A record failed on the file, was still written to the console, and the
\* write reported the failure.
C7_Witness ==
    /\ lastCall.op = "Log"
    /\ BuiltByNew(lastCall.logger)
    /\ opts.file[2] # "" /\ opts.stdout
    /\ lastCall.passed
    /\ lastCall.file = "err"
    /\ lastCall.console = "ok"
    /\ lastCall.err

(***************************************************************************)
(* Claims about With and Named, checked under SpecDerive                   *)
(***************************************************************************)
\* C5: With and Named return a new Logger and never mutate the receiver:
\* every Logger still has the bound fields, name, level and sink it was
\* created with, however many children were derived from it, the Logger a
\* call returns is a new object, and a log record carries exactly the
\* fields and name its logger was created with.
C5_DerivingNeverMutatesReceiver ==
    /\ \A l \in LoggerIds : loggers[l] = born[l]
    /\ lastCall.op \in {"With", "Named"} =>
           /\ lastCall.logger # lastCall.parent
           /\ lastCall.logger = nLoggers
    /\ lastCall.op = "Log" =>
           /\ lastCall.rec.fields = born[lastCall.logger].core.fields
           /\ lastCall.rec.name = born[lastCall.logger].core.name

\* A logger built by New has a child carrying a field, and the record the
\* parent then wrote to its file has no field.
C5_Witness ==
    /\ lastCall.op = "Log"
    /\ BuiltByNew(lastCall.logger)
    /\ lastCall.file = "ok"
    /\ lastCall.rec.fields = <<>>
    /\ \E c \in LoggerIds :
           /\ c > lastCall.logger /\ c <= nLoggers
           /\ loggers[c].fw = loggers[lastCall.logger].fw
           /\ loggers[c].core.fields = <<"a">>

(***************************************************************************)
(* Claims about package slog, checked under SpecSlog                       *)
(***************************************************************************)
\* The callers that have assigned logger and not yet reached once.Do.
BeforeOnce == {c \in Callers : cpc[c] = "once"}

\* C8: across any number of initLogger calls, sequential or concurrent, the
\* flush goroutine is started exactly once per process: there is never more
\* than one flush loop, and there is one as soon as one initLogger call has
\* gone through its once.Do.
C8_FlushGoroutineStartedOnce ==
    /\ Len(flush) <= 1
    /\ Len(flush) = 1 <=> once
    /\ Len(flush) = 1 <=> nInst > Cardinality(BeforeOnce)

\* Two initLogger calls have built a logger, one of them is about to call
\* once.Do after the other started the flush loop.
C8_Witness ==
    /\ nInst >= 2
    /\ Len(flush) = 1
    /\ BeforeOnce # {}

\* C9: as long as Init has not been called, initLogger(defaultOptions()) runs
\* at most once however many facade calls found no logger, and all facade
\* calls that found no logger got the same logger from getLogger.
C9_DefaultLoggerBuiltOnce ==
    ~initCalled =>
        /\ defaultInits <= 1
        /\ \A c1, c2 \in Callers :
               cnil[c1] /\ cnil[c2] /\ cgot[c1] # NULL /\ cgot[c2] # NULL
                   => cgot[c1] = cgot[c2]

(***************************************************************************)
(* Claims about fileWriter.Sync and the handle, checked under SpecSync     *)
(***************************************************************************)
\* C11: a Sync call, whatever the Writes in progress, changes no file, no
\* handle, no Write and not the mutex; on a nil fileWriter or one with no
\* handle it returns nil and calls fsync on nothing; on the open handle,
\* also while a Write holds the lock, it returns nil unless fsync itself
\* fails; and no Write fails or is torn because of it: every file is a
\* sequence of whole payloads.
C11_SyncConcurrentWithWrite ==
    [][syn' # NoSync =>
          /\ UNCHANGED <<fsVars, fw, mux, writerVars, reloadVars>>
          /\ syn'.f.nil \/ syn'.f.w = NULL => syn'.res = "ok" /\ syn'.h = NULL
          /\ ~syn'.f.nil /\ syn'.f.w # NULL =>
                 /\ syn'.h = fw.w
                 /\ handles[fw.w].state = "open" => syn'.res \in {"ok", "ioerr"}
                 /\ syn'.res = "ioerr" => handles[fw.w].state = "open"
          /\ WholePayloads']_vars

\* Sync has returned nil on the open handle while a Write is between the two
\* pieces of its payload.
C11_Witness ==
    /\ syn.res = "ok"
    /\ syn.h = fw.w
    /\ syn.h # NULL
    /\ \E g \in Writers : wpc[g] = "w2" /\ wh[g] = syn.h

OpenHandles == {h \in HandleIds : handles[h].state = "open"}

ReloadInProgress == \E r \in Reloaders : rpc[r] = "open"

\* C12 as stated: whenever no Reload is between its Close and its openFile,
\* the fileWriter owns exactly one open handle, the one in f.w.
C12_ExactlyOneOpenHandle ==
    ~ReloadInProgress => fw.w # NULL /\ OpenHandles = {fw.w}

\* C12 amended: f.w is never nil; no handle but f.w is open, so the previous
\* handle is closed before a new one is installed and none is leaked or held
\* twice; f.w is open whenever no Reload is in progress and no Reload has
\* failed; once a Reload has failed f.w is closed and the fileWriter owns no
\* open handle.
C12_OneOpenHandleUnlessReloadFailed ==
    /\ fw.w # NULL
    /\ OpenHandles \subseteq {fw.w}
    /\ ~ReloadInProgress /\ (\A r \in Reloaders : ~FailedReload(r))
           => OpenHandles = {fw.w}
    /\ (\E r \in Reloaders : FailedReload(r)) => OpenHandles = {}

\* A Reload has installed a new handle and closed the one before, a Write
\* has gone to the new handle and a Sync has just been called on it.
C12_Witness ==
    /\ \E r \in Reloaders :
           /\ rres[r] = "ok"
           /\ fw.w = ropened[r]
           /\ handles[rprior[r]].state = "closed"
    /\ OpenHandles = {fw.w}
    /\ \E g \in Writers : wres[g] = "ok" /\ wh[g] = fw.w
    /\ syn.res = "ok" /\ syn.h = fw.w

(***************************************************************************)
(* Further claims about New, checked under SpecLogger                      *)
(***************************************************************************)
\* The directory New's File option names ("." when it names none).
OptDir == IF opts.file[1] = "" THEN "." ELSE opts.file[1]

\* C13: when dir/filename exists as a directory, New returns an error and no
\* logger, opens no file and builds no fileWriter.
C13_PathIsDirectoryFails ==
    [][opts.file[2] # "" /\ fsDir[OptDir] = "dir" /\ fsPath[OptDir] = -1
           /\ lastCall'.op = "New"
       => /\ lastCall'.err =
                 (IF LevelOptionError(opts.level) # "none" THEN "Invalid log level" ELSE "isdir")
          /\ lastCall'.logger = NULL
          /\ UNCHANGED <<fsVars, loggers, nLoggers, gLogger, fws>>]_vars

\* New has failed because logs/app.log is a directory.
C13_Witness ==
    /\ lastCall.op = "New"
    /\ lastCall.err = "isdir"
    /\ fsPath[OptDir] = -1
    /\ nLoggers = 1
    /\ \A h \in HandleIds : handles[h].state = "unused"

\* C14: after New was called with a file name and valid options, the
\* directory exists, created when it was missing; the file is open when
\* nothing but a missing directory stood in the way; and New returned an
\* error for the directory only when it exists and is not a directory.
C14_MissingDirectoryCreated ==
    lastCall.op = "New" /\ opts.file[2] # "" /\ LevelOptionError(opts.level) = "none"
        => /\ fsDir[OptDir] # "absent"
           /\ fsDir[OptDir] = "dir" /\ fsPath[OptDir] # -1
                  => lastCall.err = "none" /\ fsPath[OptDir] > 0
           /\ lastCall.err \in {"stat", "notdir"} => fsDir[OptDir] = "file"

\* The level names the switch of initLogger recognises, in any case.
Recognized(lvl) == ToLower(lvl) \in FiveLevels

\* C15 as stated: New called with a level name that is not recognised does
\* not fail for the level, and the logger it builds has minimum level info.
C15_UnrecognizedLevelIsInfo ==
    lastCall.op = "New" /\ opts.level.given /\ ~Recognized(opts.level.lvl)
        => /\ lastCall.err # "Invalid log level"
           /\ lastCall.err = "none" =>
                  loggers[lastCall.logger].core.lvl = zapLevel.info

\* C15 amended: a name outside allowedLevels makes the Level option, and so
\* New, fail with ErrInvalidLevel and no logger; New fails for the level in
\* no other case; and a logger built with a name Level accepts but the switch
\* of initLogger does not recognise ("panic"), or with no Level option, has
\* minimum level info.
C15_UnknownLevelRejectedOrInfo ==
    lastCall.op = "New" =>
        /\ opts.level.given /\ opts.level.lvl \notin allowedLevels
               => lastCall.err = "Invalid log level" /\ lastCall.logger = NULL
        /\ lastCall.err = "Invalid log level"
               => opts.level.given /\ opts.level.lvl \notin allowedLevels
        /\ lastCall.err = "none" /\ (~opts.level.given \/ ~Recognized(opts.level.lvl))
               => loggers[lastCall.logger].core.lvl = zapLevel.info

\* New was called with Level("verbose") and returned ErrInvalidLevel.
C15_Witness ==
    /\ lastCall.op = "New"
    /\ opts.level = [given |-> TRUE, lvl |-> "verbose"]
    /\ lastCall.err = "Invalid log level"
    /\ nLoggers = 1

\* C16: a New call that returns a logger makes gLogger refer to that new
\* logger; a New call that fails, as it does when an option or the opening
\* of the file fails, returns an error and no logger and leaves gLogger the
\* logger it was; and no other call changes gLogger.
C16_GlobalReplacedOnlyOnSuccess ==
    [][/\ lastCall'.op = "New" /\ lastCall' # lastCall =>
             /\ LevelOptionError(opts.level) # "none"
                    \/ openFile(opts.file[1], opts.file[2]).err # "none"
                    => lastCall'.err # "none"
             /\ IF lastCall'.err = "none"
                THEN /\ nLoggers' = nLoggers + 1
                     /\ lastCall'.logger = nLoggers'
                     /\ gLogger' = lastCall'.logger
                ELSE /\ lastCall'.logger = NULL
                     /\ gLogger' = gLogger
                     /\ UNCHANGED <<loggers, nLoggers>>
       /\ gLogger' # gLogger => lastCall'.op = "New" /\ lastCall'.err = "none"]_vars

\* New has failed in openFile, and gLogger is still the logger of init().
C16_Witness ==
    /\ lastCall.op = "New"
    /\ lastCall.err = "notdir"
    /\ gLogger = 1
    /\ loggers[gLogger] = DevLogger

\* C17: in the Option-struct revision, after Init(opts) has returned nil, a
\* facade call at or above the level of opts.Level (one the sampler lets
\* through) is emitted to the destinations opts configures: stdout when
\* opts.Stdout is set, the file when opts.Filename is set.
C17_FacadeUsesInitLogger ==
    /\ optInit.op = "Init" /\ optInit.err = "none"
    /\ optCall.op = "facade"
    /\ zapLevel[optCall.lvl] >= optLogLevel(optInit.opts.Level)
    /\ SamplerPasses(optCall.n)
    => /\ optInit.opts.Stdout => optCall.stdout
       /\ optInit.opts.Filename # "" => optCall.file

(***************************************************************************)
(* Claims about trace IDs, checked under SpecTrace                         *)
(***************************************************************************)
\* The context carries a trace ID: a value under traceKey, set on it or on
\* a context it derives from.
Traced(c) == ~Value(c, traceKey).nil

\* C18: a logger obtained by In(ctx) from a context that carries a trace ID
\* has the fields of gLogger and the trace field, bound to TraceID(ctx), and
\* a record logged with that logger carries that trace field: In calls on
\* one traced context bind one common value.
C18_InBindsContextTraceID ==
    [][/\ lastCall'.op = "In" /\ Traced(lastCall'.ctx) =>
              loggers'[lastCall'.logger].core.fields =
                  loggers'[lastCall'.parent].core.fields \o
                      <<String(dftTraceKey, TraceID(lastCall'.ctx))>>
       /\ /\ lastCall.op = "In" /\ Traced(lastCall.ctx)
          /\ lastCall'.op = "Log" /\ lastCall'.logger = lastCall.logger
          => lastCall'.rec.fields = <<String(dftTraceKey, TraceID(lastCall.ctx))>>]_vars

\* In was called on a context derived from a traced one, with the logger
\* New built as gLogger, and the logger it returned carries the trace ID of
\* the outer context.
C18_Witness ==
    /\ lastCall.op = "In"
    /\ BuiltByNew(lastCall.parent)
    /\ lastCall.ctx = <<[key |-> traceKey, val |-> "t2"], [key |-> "userKey", val |-> "u"]>>
    /\ TraceID(lastCall.ctx) = "t2"
    /\ loggers[lastCall.logger].core.fields = <<"zgtrace=t2">>

(***************************************************************************)
(* Claims about the order of writes, checked under SpecWriter              *)
(***************************************************************************)
\* The places of the pieces of goroutine g's payload in file n.
ChunkPos(n, g) == {i \in 1..Len(disk[n]) : disk[n][i].p = g}

\* The Write of g1 took the fileWriter's mutex before the Write of g2 did.
LockedBefore(g1, g2) ==
    \E i, j \in 1..Len(lockOrder) : i < j /\ lockOrder[i] = g1 /\ lockOrder[j] = g2

\* C19: payloads are in the file in the order in which their Write calls
\* took the fileWriter's lock: of two Writes, the payload of the one that
\* took the lock first comes first, whole, in every file both wrote to (so
\* also when both wrote through the same handle).
C19_FileOrderIsLockOrder ==
    \A n \in HandleIds, g1, g2 \in Writers :
        LockedBefore(g1, g2) =>
            \A i \in ChunkPos(n, g1), j \in ChunkPos(n, g2) : i < j

\* Both goroutines wrote through the same handle, the second one first.
C19_Witness ==
    /\ lockOrder = <<2, 1>>
    /\ wh[1] = wh[2] /\ wres[1] = "ok" /\ wres[2] = "ok"
    /\ disk[handles[wh[1]].inode] =
           <<[p |-> 2, c |-> 1], [p |-> 2, c |-> 2], [p |-> 1, c |-> 1], [p |-> 1, c |-> 2]>>

(***************************************************************************)
(* Claims about the flush loop, checked under SpecSlog                     *)
(***************************************************************************)
\* C20: every tick of the flush loop calls Sync on the logger installed in
\* the package variable at that moment: once a later initLogger call has
\* replaced the logger, a tick flushes the new logger and not the replaced
\* one. A tick changes nothing else, and nothing but a tick calls Sync.
C20_TickFlushesInstalledLogger ==
    [][lastSync' # lastSync =>
           /\ logger # NULL
           /\ lastSync' = logger
           /\ logger' = logger]_vars

\* The flush loop was started by the first initLogger call, a later call
\* has replaced the logger, and the last tick flushed the new one.
C20_Witness ==
    /\ Len(flush) = 1
    /\ nInst >= 2
    /\ logger = nInst
    /\ lastSync = logger
    /\ \A c \in Callers : cpc[c] = "idle"

(***************************************************************************)
(* Claims about loggers without a file, checked under SpecLogger           *)
(***************************************************************************)
\* New was called with Stdout() and no File option naming a file.
StdoutOnly == opts.file[2] = "" /\ opts.stdout

\* C21: a logger built by New with the Stdout option and no filename writes
\* every record that passes its level check and sampler to stdout, and the
\* write does not panic: no log call on it goes through an absent file sink.
C21_StdoutOnlyWritesStdout ==
    /\ lastCall.op = "Log"
    /\ BuiltByNew(lastCall.logger)
    /\ StdoutOnly
    /\ lastCall.passed
    => /\ ~lastCall.panic
       /\ lastCall.file = "none"
       /\ ~lastCall.env.consoleErr => lastCall.console = "ok"

(***************************************************************************)
(* Claims about Sync interleaved with Reload, checked under SpecSync       *)
(***************************************************************************)
\* C22: a Sync call on a fileWriter that has a handle, interleaved with
\* Reload calls none of which has failed, never runs while a Reload is
\* between closing the handle and installing the new one, and calls fsync
\* only on a handle that is open.
C22_SyncOnlyOnInstalledOpenHandle ==
    /\ syn # NoSync
    /\ ~syn.f.nil /\ syn.f.w # NULL
    /\ \A r \in Reloaders : ~FailedReload(r)
    => /\ ~ReloadInProgress
       /\ handles[syn.h].state = "open"
       /\ syn.res # "closed"

(***************************************************************************)
(* Claims about the package-level Reload, checked under SpecReload         *)
(***************************************************************************)
\* Logger l was built by New with a file, or derived from such a logger.
HasFileSink(l) == l > 1 /\ l <= nLoggers /\ loggers[l].fw # NULL

\* C23: after Reload() has returned nil, every logger built by New with a
\* file, and every child of it, writes through a handle that this Reload
\* opened, open on the file at the logger's path (until the file is rotated
\* away again).
C23_ReloadRefreshesEveryFileLogger ==
    lastCall.op = "Reload" /\ lastCall.err = "none" =>
        \A l \in LoggerIds : HasFileSink(l) =>
            LET f == fws[loggers[l].fw] IN
            /\ f.w \in lastCall.opened
            /\ handles[f.w].state = "open"
            /\ handles[f.w].inode = fsPath[f.dir] \/ fsPath[f.dir] = 0

(***************************************************************************)
(* Claims about the Level option, checked under SpecLogger                 *)
(***************************************************************************)
\* New was called with Level(lvl), lvl one of the names Level accepts.
AcceptedLevel == opts.level.given /\ opts.level.lvl \in allowedLevels

\* The last log call passed the level check of its core (the sampler may
\* still have dropped it).
PassedLevelFilter == lastCall.passed \/ lastCall.sampledOut

\* C24: for every level name the Level option accepts (debug, info, warn,
\* error, panic, fatal), the logger New builds has exactly that level as its
\* minimum: a record below it is dropped, a record at or above it passes
\* the level filter.
C24_AcceptedLevelIsMinimum ==
    /\ lastCall.op = "New" /\ lastCall.err = "none" /\ AcceptedLevel =>
           loggers[lastCall.logger].core.lvl = zapLevel[opts.level.lvl]
    /\ lastCall.op = "Log" /\ BuiltByNew(lastCall.logger) /\ AcceptedLevel =>
           (PassedLevelFilter <=> zapLevel[lastCall.lvl] >= zapLevel[opts.level.lvl])

====
